---- MODULE Spec2Model ----
(***************************************************************************)
(* Oracle update scheduler (utils/scheduler.js), the update route          *)
(* (pages/api/oracles/[id]/update.js), the legacy update route and the     *)
(* wallet helpers they call (utils/wallet-manager.js, utils/theta.js).     *)
(*                                                                         *)
(* One Node.js process: every action is one event-loop turn, that is the   *)
(* synchronous code between two awaits.  Time is in milliseconds.          *)
(***************************************************************************)
EXTENDS Integers, Sequences, FiniteSets, TLC

\* ------------------------------------------------------------------ bounds
MaxLoops == 2        \* schedulerLoop invocations alive at the same time
MaxReqs == 2         \* route invocations alive at the same time
MaxEvents == 3       \* events of the environment in one behaviour: clock
                     \* advances, manual requests, failures of external calls

\* ------------------------------------------------------- program constants
MinuteMs == 60000            \* 60 * 1000
CheckIntervalMs == 60000     \* setInterval(schedulerLoop, 60 * 1000)
UpdateDelayMs == 60000       \* setTimeout(resolve, 60000)
AutoStartDelayMs == 5000     \* setTimeout(startScheduler, 5000)
DefaultIntervalMin == 60     \* || 60
DefaultMultiplier == 10000   \* || 10000
FallbackIntervalMin == 1     \* validUpdateInterval fallback

EvmDecimals == 18        \* decimals of an EVM balance
DecimalPlaces == 6       \* formatBalance: decimalPlaces = 6
MinGasAmount == 1000     \* 0.001, in units of 10^-DecimalPlaces
MinCreateAmount == 5000000   \* 5, in units of 10^-DecimalPlaces
Undef == -1                  \* a field that is undefined
NoTime == -1                 \* lastUpdate: null
NoHandle == 0                \* schedulerInterval = null

Ids == {"a", "b"}
IdOrder == <<"a", "b">>      \* Object.entries(configs) order
StartTime == 60000           \* wall clock when the process starts
Deltas == {1, 60000}         \* clock advances

\* ------------------------------------------------------------------- state
VARIABLES
  now,              \* wall clock (ms)
  events,           \* events of the environment so far
  configs,          \* data/oracles.json: id -> config
  chain,            \* SimpleOracle storage: id -> [exists, value, creator]
  updatingOracles,  \* scheduler.js: updatingOracles
  isRunning,        \* scheduler.js: isRunning
  schedulerInterval,\* scheduler.js: schedulerInterval (timer handle or null)
  timers,           \* registered interval timers: records [h, at]
  autoStart,        \* the import-time setTimeout is pending
  loops,            \* schedulerLoop invocations
  reqs,             \* route invocations
  dueCall,          \* a direct call of getOraclesDueForUpdate
  wallets,          \* balance in wei of every derived address (decimal digits)
  call              \* a read-only endpoint or library call: arguments, result

vars == <<now, events, configs, chain, updatingOracles, isRunning,
          schedulerInterval, timers, autoStart, loops, reqs, dueCall, wallets,
          call>>

LoopIds == 1..MaxLoops
ReqIds == 1..MaxReqs

\* ------------------------------------------------------------ wallet model
\* Evm.deriveAddressAndPublicKey(account, path): a deterministic function of
\* the account identity and the derivation path.
deriveAddressAndPublicKey(account, path) == <<account, path>>

\* getDerivationPath(oracleId): the derivation path is the oracle id
getDerivationPath(oracleId) == oracleId

ContractAccount == "contractId"        \* theta.js: contractId
WorkerAccount == "workerAccountId"     \* getAgentAccount().workerAccountId

\* ---------------------------------------------------------------- due-ness
Truthy(x) == x # Undef /\ x # 0

\* (oracle.updateInterval || oracle.updateIntervalMinutes || 60)
SchedulerIntervalMin(oracle) ==
  IF Truthy(oracle.updateInterval) THEN oracle.updateInterval
  ELSE IF Truthy(oracle.updateIntervalMinutes) THEN oracle.updateIntervalMinutes
  ELSE DefaultIntervalMin

\* calculateNextUpdate(oracle), called at wall-clock time t (new Date())
calculateNextUpdate(oracle, t) ==
  IF oracle.lastUpdate = NoTime
  THEN t
  ELSE oracle.lastUpdate + SchedulerIntervalMin(oracle) * MinuteMs

\* the due test with a gate on the pause flag
DueAfterCheck_ActiveOnly(config, currentTime, t, exists) ==
  exists /\ config.isActive /\ currentTime >= calculateNextUpdate(config, t)

\* the body of the for loop of getOraclesDueForUpdate for one entry, resumed at
\* time t after `await getOracle(oracleId)` ended with exists (TRUE) or threw
DueAfterCheck(config, currentTime, t, exists) ==
  exists /\ currentTime >= calculateNextUpdate(config, t)

\* an event of the environment is counted
Event == events < MaxEvents /\ events' = events + 1

\* an external call that succeeds (ok) or fails; a failure is an event
Faulty(ok) == IF ok THEN UNCHANGED events ELSE Event

\* -------------------------------------------------------------- records
IdleLoop ==
  [pc |-> "idle", configs |-> <<>>, currentTime |-> 0, scanIdx |-> 0,
   due |-> <<>>, passed |-> {}, avail |-> <<>>, idx |-> 0, req |-> 0,
   wake |-> 0, res |-> "none", last |-> "none"]

NoCall ==
  [pc |-> "none", configs |-> <<>>, currentTime |-> 0, scanIdx |-> 0,
   due |-> <<>>, passed |-> {}]

FreeReq ==
  [pc |-> "free", route |-> "none", id |-> "none", origin |-> 0,
   cur |-> Undef, new |-> Undef, pm |-> Undef, ui |-> Undef,
   sender |-> <<>>, micro |-> Undef, shortfall |-> Undef,
   built |-> FALSE, signs |-> 0, bcasts |-> 0,
   status |-> 0, success |-> FALSE, skipped |-> FALSE, error |-> "none"]

NewReq(route, oracleId, origin) ==
  [FreeReq EXCEPT !.pc = "start", !.route = route, !.id = oracleId,
                  !.origin = origin]

FreeSlot(r) == reqs[r].pc = "free" /\ \A q \in ReqIds : q < r => reqs[q].pc # "free"
IdleSlot(l) == loops[l].pc = "idle" /\ \A k \in LoopIds : k < l => loops[k].pc # "idle"

\* --------------------------------------------------- getOraclesDueForUpdate
\* lines 48-50: load the configs, take the current time, empty result
ScanStart(S) ==
  [S EXCEPT !.pc = "scan", !.configs = configs, !.currentTime = now,
            !.scanIdx = 1, !.due = <<>>, !.passed = {}]

\* lines 53-70 for the entry at scanIdx, resumed after the await
ScanEntry(S, exists) ==
  LET oracleId == IdOrder[S.scanIdx]
  IN [S EXCEPT !.due = IF DueAfterCheck(S.configs[oracleId], S.currentTime, now, exists)
                       THEN Append(@, oracleId) ELSE @,
               !.passed = IF exists THEN @ \cup {oracleId} ELSE @,
               !.scanIdx = @ + 1]

\* the outcomes of `await getOracle(oracleId)`: the contract reverts for an id
\* that does not exist; the RPC call itself may fail for one that does
GetOracleOutcomes(oracleId) == IF chain[oracleId].exists THEN {TRUE, FALSE} ELSE {FALSE}

\* a direct call of the exported getOraclesDueForUpdate: lines 48-50
DueCallStart ==
  /\ dueCall.pc # "scan"
  /\ Event
  /\ dueCall' = ScanStart(NoCall)
  /\ UNCHANGED <<now, configs, chain, updatingOracles, isRunning, schedulerInterval,
                 timers, autoStart, loops, reqs, wallets, call>>

\* lines 53-73: one entry; after the last one the call returns dueOracles
DueCallStep ==
  /\ dueCall.pc = "scan"
  /\ \E exists \in GetOracleOutcomes(IdOrder[dueCall.scanIdx]) :
       /\ Faulty(exists \/ ~chain[IdOrder[dueCall.scanIdx]].exists)
       /\ LET S == ScanEntry(dueCall, exists)
          IN dueCall' = IF S.scanIdx <= Len(IdOrder) THEN S
                        ELSE [S EXCEPT !.pc = "returned"]
  /\ UNCHANGED <<now, configs, chain, updatingOracles, isRunning, schedulerInterval,
                 timers, autoStart, loops, reqs, wallets, call>>

\* ------------------------------------------------------ executeOracleUpdate
\* executeOracleUpdate without the check of lines 87-90
executeOracleUpdate_Unchecked(l, L, oracleId) ==
  /\ updatingOracles' = updatingOracles \cup {oracleId}
  /\ \E r \in ReqIds :
       /\ FreeSlot(r)
       /\ reqs' = [reqs EXCEPT ![r] = NewReq("update", oracleId, l)]
       /\ loops' = [loops EXCEPT ![l] = [L EXCEPT !.pc = "exec", !.req = r,
                                                  !.res = "none"]]

\* lines 86-103: the check of the updating set (`return false`: res "skipped"),
\* the insert and the POST; `last` keeps the outcome of the loop's previous call
executeOracleUpdate(l, L, oracleId) ==
  IF oracleId \in updatingOracles
  THEN /\ loops' = [loops EXCEPT ![l] = [L EXCEPT !.pc = "delay", !.res = "skipped",
                                                  !.last = "skipped",
                                                  !.wake = now + UpdateDelayMs]]
       /\ UNCHANGED <<updatingOracles, reqs>>
  ELSE /\ updatingOracles' = updatingOracles \cup {oracleId}
       /\ \E r \in ReqIds :
            /\ FreeSlot(r)
            /\ reqs' = [reqs EXCEPT ![r] = NewReq("update", oracleId, l)]
            /\ loops' = [loops EXCEPT ![l] = [L EXCEPT !.pc = "exec", !.req = r,
                                                       !.res = "none"]]

\* lines 105-123: what the call returns once its fetch ended with `kind`:
\* "success"/"failure" (result.success), or an exception ("neterror": fetch
\* rejected, "unparsable": response.json() threw), which the catch turns into false
\* without the catch of lines 120-123 the exception reaches schedulerLoop
ExecuteResult_Uncaught(kind) ==
  CASE kind = "success" -> "true"
    [] kind = "failure" -> "false"
    [] OTHER -> "throw"

ExecuteResult(kind) ==
  CASE kind = "success" -> "true"
    [] kind = "failure" -> "false"
    [] OTHER -> "false"

\* the delete of line 126 at the end of the try block instead of in finally
ExecuteFinally_InTry(set, oracleId, kind) ==
  IF kind \in {"success", "failure"} THEN set \ {oracleId} ELSE set

\* lines 124-127: finally
ExecuteFinally(set, oracleId, kind) == set \ {oracleId}

\* ------------------------------------------------------------ schedulerLoop
\* lines 139-157, run in the same turn as the last entry of the scan
AfterScan(l, L) ==
  LET availableOracles == SelectSeq(L.due, LAMBDA o : o \notin updatingOracles)
  IN IF Len(L.due) = 0 \/ Len(availableOracles) = 0
     THEN /\ loops' = [loops EXCEPT ![l] = IdleLoop]
          /\ UNCHANGED <<updatingOracles, reqs>>
     ELSE executeOracleUpdate(l, [L EXCEPT !.avail = availableOracles, !.idx = 1],
                              availableOracles[1])

\* line 137 up to the first await
LoopStart(l) == loops' = [loops EXCEPT ![l] = ScanStart(IdleLoop)]

LoopScan(l) ==
  /\ loops[l].pc = "scan"
  /\ \E exists \in GetOracleOutcomes(IdOrder[loops[l].scanIdx]) :
       /\ Faulty(exists \/ ~chain[IdOrder[loops[l].scanIdx]].exists)
       /\ LET L == ScanEntry(loops[l], exists)
          IN IF L.scanIdx <= Len(IdOrder)
             THEN /\ loops' = [loops EXCEPT ![l] = L]
                  /\ UNCHANGED <<updatingOracles, reqs>>
             ELSE AfterScan(l, L)
  /\ UNCHANGED <<now, configs, chain, isRunning, schedulerInterval, timers,
                 autoStart, dueCall, call, wallets>>

\* the fetch of executeOracleUpdate ends; lines 105-127, then line 160.  A
\* fetch that is rejected ("neterror") is one that never reached the handler
LoopExecReturn(l) ==
  /\ loops[l].pc = "exec"
  /\ LET r == loops[l].req
         oracleId == loops[l].avail[loops[l].idx]
     IN \E kind \in {"success", "failure", "neterror", "unparsable"} :
          /\ Faulty(kind \in {"success", "failure"})
          /\ kind = "neterror" => reqs[r].pc = "start"
          /\ kind # "neterror" => reqs[r].pc = "done"
          /\ kind = "success" => reqs[r].success
          /\ kind = "failure" => ~reqs[r].success
          /\ reqs' = [reqs EXCEPT ![r] = FreeReq]
          /\ updatingOracles' = ExecuteFinally(updatingOracles, oracleId, kind)
          /\ loops' = [loops EXCEPT ![l] =
                IF ExecuteResult(kind) = "throw"
                THEN IdleLoop    \* lines 163-165: the catch of schedulerLoop
                ELSE [@ EXCEPT !.pc = "delay", !.req = 0, !.res = ExecuteResult(kind),
                               !.last = kind, !.wake = now + UpdateDelayMs]]
  /\ UNCHANGED <<now, configs, chain, isRunning, schedulerInterval, timers,
                 autoStart, dueCall, call, wallets>>

\* the for loop without the delay of line 160
LoopDelayDone_NoDelay(l) ==
  /\ loops[l].pc = "delay"
  /\ IF loops[l].idx < Len(loops[l].avail)
     THEN executeOracleUpdate(l, [loops[l] EXCEPT !.idx = @ + 1],
                              loops[l].avail[loops[l].idx + 1])
     ELSE /\ loops' = [loops EXCEPT ![l] = IdleLoop]
          /\ UNCHANGED <<updatingOracles, reqs>>
  /\ UNCHANGED <<now, events, configs, chain, isRunning, schedulerInterval,
                 timers, autoStart, dueCall, call, wallets>>

\* line 160 resolves; the for loop goes on or ends
LoopDelayDone(l) ==
  /\ loops[l].pc = "delay"
  /\ now >= loops[l].wake
  /\ IF loops[l].idx < Len(loops[l].avail)
     THEN executeOracleUpdate(l, [loops[l] EXCEPT !.idx = @ + 1],
                              loops[l].avail[loops[l].idx + 1])
     ELSE /\ loops' = [loops EXCEPT ![l] = IdleLoop]
          /\ UNCHANGED <<updatingOracles, reqs>>
  /\ UNCHANGED <<now, events, configs, chain, isRunning, schedulerInterval,
                 timers, autoStart, dueCall, call, wallets>>

\* --------------------------------------------------------- scheduler control
NewHandle == CHOOSE h \in 1..(Cardinality(timers) + 1) : \A t \in timers : t.h # h

\* startScheduler without the guard of lines 177-180
startScheduler_Unguarded ==
  /\ isRunning' = TRUE
  /\ \E l \in LoopIds : IdleSlot(l) /\ LoopStart(l)
  /\ schedulerInterval' = NewHandle
  /\ timers' = timers \cup {[h |-> NewHandle, at |-> now + CheckIntervalMs]}

\* lines 176-192
startScheduler ==
  IF isRunning
  THEN UNCHANGED <<isRunning, schedulerInterval, timers, loops>>
  ELSE /\ isRunning' = TRUE
       /\ \E l \in LoopIds : IdleSlot(l) /\ LoopStart(l)
       /\ schedulerInterval' = NewHandle
       /\ timers' = timers \cup {[h |-> NewHandle, at |-> now + CheckIntervalMs]}

stopScheduler ==
  IF ~isRunning
  THEN UNCHANGED <<isRunning, schedulerInterval, timers>>
  ELSE /\ IF schedulerInterval # NoHandle
          THEN /\ timers' = {t \in timers : t.h # schedulerInterval}
               /\ schedulerInterval' = NoHandle
          ELSE UNCHANGED <<timers, schedulerInterval>>
       /\ isRunning' = FALSE

\* POST /api/scheduler/status {action: 'start'}
PostStart ==
  /\ Event
  /\ startScheduler
  /\ UNCHANGED <<now, configs, chain, updatingOracles, autoStart, reqs,
                 dueCall, call, wallets>>

\* POST /api/scheduler/status {action: 'stop'}
PostStop ==
  /\ Event
  /\ stopScheduler
  /\ UNCHANGED <<now, configs, chain, updatingOracles, autoStart, loops, reqs,
                 dueCall, call, wallets>>

\* the import-time timer fires
AutoStart ==
  /\ autoStart
  /\ now >= StartTime + AutoStartDelayMs
  /\ autoStart' = FALSE
  /\ startScheduler
  /\ UNCHANGED <<now, events, configs, chain, updatingOracles, reqs, dueCall, call, wallets>>

\* a registered interval timer fires: schedulerLoop() up to its first await
Tick ==
  /\ \E t \in timers :
       /\ now >= t.at
       /\ timers' = (timers \ {t}) \cup {[t EXCEPT !.at = now + CheckIntervalMs]}
  /\ \E l \in LoopIds : IdleSlot(l) /\ LoopStart(l)
  /\ UNCHANGED <<now, events, configs, chain, updatingOracles, isRunning,
                 schedulerInterval, autoStart, reqs, dueCall, call, wallets>>

\* -------------------------------------------------------------------- clock
Advance ==
  /\ Event
  /\ \E d \in Deltas : now' = now + d
  /\ UNCHANGED <<configs, chain, updatingOracles, isRunning,
                 schedulerInterval, timers, autoStart, loops, reqs, dueCall, call, wallets>>

\* ------------------------------------------------------- config store
\* updateOracleConfig(oracleId, updates): merge; throws when the id is absent
\* (every caller below catches that and goes on)
updateOracleConfig(cfgs, oracleId, updates) ==
  IF oracleId \in DOMAIN cfgs
  THEN [cfgs EXCEPT ![oracleId] =
          [f \in DOMAIN @ |-> IF f \in DOMAIN updates THEN updates[f] ELSE @[f]]]
  ELSE cfgs

\* ------------------------------------------------------------ the contract
\* the contract's storage is a map from oracle id to OracleData; an id never
\* written reads as the zero value
ZeroAddress == <<"0x0", "0x0">>
NoOracle == [exists |-> FALSE, value |-> 0, creator |-> ZeroAddress, hasError |-> FALSE]

\* SimpleOracle.createOracle(oracleId, initialValue, description) sent by `sender`
ContractCreateOracle(c, oracleId, sender, initialValue) ==
  IF c[oracleId].exists
  THEN c    \* revert OracleAlreadyExists
  ELSE [c EXCEPT ![oracleId] = [exists |-> TRUE, value |-> initialValue,
                                creator |-> sender, hasError |-> FALSE]]

\* updateOracle with the creator check left out
ContractUpdateOracle_AnySender(c, oracleId, sender, newValue) ==
  IF c[oracleId].exists
  THEN [c EXCEPT ![oracleId].value = newValue, ![oracleId].hasError = FALSE]
  ELSE c

\* SimpleOracle.updateOracle(oracleId, newValue) sent by `sender`
ContractUpdateOracle(c, oracleId, sender, newValue) ==
  IF c[oracleId].exists /\ c[oracleId].creator = sender
  THEN [c EXCEPT ![oracleId].value = newValue, ![oracleId].hasError = FALSE]
  ELSE c    \* revert OracleNotExists / OnlyCreatorCanUpdate

\* SimpleOracle.setOracleError(oracleId, errorStatus) sent by `sender`
ContractSetOracleError(c, oracleId, sender, errorStatus) ==
  IF c[oracleId].exists /\ c[oracleId].creator = sender
  THEN [c EXCEPT ![oracleId].hasError = errorStatus]
  ELSE c    \* revert OracleNotExists / OnlyCreatorCanUpdate

\* --------------------------------------------------- update route, handler
\* the answer of a route: res.status(status).json({success, error, skipped})
Respond(R, status, success, skipped, error) ==
  [R EXCEPT !.pc = "done", !.status = status, !.success = success,
            !.skipped = skipped, !.error = error]

\* lines 65-68
HandlerMultiplier(cfg) ==
  IF cfg.priceMultiplier # Undef THEN cfg.priceMultiplier
  ELSE IF Truthy(cfg.multiplier) THEN cfg.multiplier ELSE DefaultMultiplier

\* lines 81-83
HandlerInterval(cfg) ==
  IF cfg.updateInterval # Undef THEN cfg.updateInterval
  ELSE IF Truthy(cfg.updateIntervalMinutes) THEN cfg.updateIntervalMinutes
  ELSE DefaultIntervalMin

\* a backfill without the tests `=== undefined`: the defaults are always written
Backfill_Overwrite(cfgs, oracleId) ==
  updateOracleConfig(cfgs, oracleId,
    [priceMultiplier |-> DefaultMultiplier, updateInterval |-> DefaultIntervalMin])

\* lines 65-93: the two backfills
Backfill(cfgs, oracleId) ==
  LET cfg == cfgs[oracleId]
      c1 == IF cfg.priceMultiplier = Undef
            THEN updateOracleConfig(cfgs, oracleId,
                                    [priceMultiplier |-> HandlerMultiplier(cfg)])
            ELSE cfgs
  IN IF cfg.updateInterval = Undef
     THEN updateOracleConfig(c1, oracleId, [updateInterval |-> HandlerInterval(cfg)])
     ELSE c1

\* a product cut off at the decimal point
RoundedValue_Truncated(rawPrice, priceMultiplier) ==
  LET product == rawPrice.num * priceMultiplier
  IN IF product >= 0 THEN product \div rawPrice.den
     ELSE -((-product) \div rawPrice.den)

\* Math.round(rawPrice * priceMultiplier), rawPrice = num / den
RoundedValue(rawPrice, priceMultiplier) ==
  (2 * rawPrice.num * priceMultiplier + rawPrice.den) \div (2 * rawPrice.den)

\* without the comparison of line 160 every value is sent
ValueChanged_Always(newValue, currentValue) == TRUE

\* line 160: the value is sent only when it differs from the value read
ValueChanged(newValue, currentValue) == newValue # currentValue

\* a catch that also stamps the attempt as an update
PersistError_Stamped(cfgs, oracleId, message) ==
  updateOracleConfig(cfgs, oracleId,
    [hasError |-> TRUE, errorMessage |-> message, lastErrorAt |-> now,
     lastUpdate |-> now])

\* lines 229-237: the catch of the handler
PersistError(cfgs, oracleId, message) ==
  updateOracleConfig(cfgs, oracleId,
    [hasError |-> TRUE, errorMessage |-> message, lastErrorAt |-> now])

\* lines 196-209
PersistSuccess(cfgs, R) ==
  LET validUpdateInterval == IF Truthy(R.ui) /\ R.ui > 0 THEN R.ui ELSE FallbackIntervalMin
  IN updateOracleConfig(cfgs, R.id,
       [lastUpdate |-> now, nextUpdate |-> now + validUpdateInterval * MinuteMs,
        hasError |-> FALSE, errorMessage |-> "",
        lastTxHash |-> <<R.sender, R.id, R.new>>, lastValue |-> R.new])

\* lines 38-98: validation, config load and backfill, up to `await getOracle`
HandlerStart(r) ==
  /\ reqs[r].pc = "start" /\ reqs[r].route = "update"
  /\ LET R == reqs[r] IN
     IF R.id \notin DOMAIN configs
     THEN /\ reqs' = [reqs EXCEPT ![r] = Respond(R, 404, FALSE, FALSE, "Oracle not found")]
          /\ UNCHANGED configs
     ELSE /\ configs' = Backfill(configs, R.id)
          /\ reqs' = [reqs EXCEPT ![r] =
                        [R EXCEPT !.pc = "read",
                                  !.pm = HandlerMultiplier(configs[R.id]),
                                  !.ui = HandlerInterval(configs[R.id])]]
  /\ UNCHANGED <<now, events, chain, updatingOracles, isRunning,
                 schedulerInterval, timers, autoStart, loops, dueCall, call, wallets>>

\* the handler without the catch of lines 99-105: a failed read goes on
HandlerRead_NoGate(r) ==
  /\ reqs[r].pc = "read" /\ reqs[r].route = "update"
  /\ \E ok \in GetOracleOutcomes(reqs[r].id) :
       /\ Faulty(ok \/ ~chain[reqs[r].id].exists)
       /\ reqs' = [reqs EXCEPT ![r] =
                  IF ok THEN [reqs[r] EXCEPT !.pc = "fetch",
                                             !.cur = chain[reqs[r].id].value]
                  ELSE [reqs[r] EXCEPT !.pc = "fetch"]]
  /\ UNCHANGED <<now, configs, chain, updatingOracles, isRunning,
                 schedulerInterval, timers, autoStart, loops, dueCall, call, wallets>>

\* lines 98-114: the on-chain read ends, the API fetch starts
HandlerRead(r) ==
  /\ reqs[r].pc = "read" /\ reqs[r].route = "update"
  /\ \E ok \in GetOracleOutcomes(reqs[r].id) :
       /\ Faulty(ok \/ ~chain[reqs[r].id].exists)
       /\ reqs' = [reqs EXCEPT ![r] =
                  IF ok THEN [reqs[r] EXCEPT !.pc = "fetch",
                                             !.cur = chain[reqs[r].id].value]
                  ELSE Respond(reqs[r], 404, FALSE, FALSE,
                               "Oracle not found on blockchain")]
  /\ UNCHANGED <<now, configs, chain, updatingOracles, isRunning,
                 schedulerInterval, timers, autoStart, loops, dueCall, call, wallets>>

\* what the API fetch and the extraction give: a failure or a raw price num/den
RawPrices == {[num |-> 85, den |-> 2], [num |-> 43, den |-> 1]}
ApiOutcomes ==
  {[kind |-> k, price |-> [num |-> 0, den |-> 1]] : k \in {"fetchfail", "extractfail"}}
  \cup {[kind |-> "price", price |-> p] : p \in RawPrices}

\* lines 114-182: fetch, extraction, validation, comparison, up to the first
\* await of updateOracle
HandlerFetch(r) ==
  /\ reqs[r].pc = "fetch" /\ reqs[r].route = "update"
  /\ \E api \in ApiOutcomes :
       LET R == reqs[r] IN
       /\ Faulty(api.kind = "price")
       /\ reqs' = [reqs EXCEPT ![r] =
         IF api.kind = "fetchfail"
         THEN Respond(R, 400, FALSE, FALSE, "Failed to fetch data from API")
         ELSE IF api.kind = "extractfail"
         THEN Respond(R, 400, FALSE, FALSE, "Failed to extract price from API response")
         ELSE LET newValue == RoundedValue(api.price, R.pm) IN
              IF ~ValueChanged(newValue, R.cur)
              THEN Respond([R EXCEPT !.new = newValue], 200, TRUE, TRUE, "none")
              ELSE [R EXCEPT !.pc = "build", !.new = newValue]]
  /\ UNCHANGED <<now, configs, chain, updatingOracles, isRunning,
                 schedulerInterval, timers, autoStart, loops, dueCall, call, wallets>>

\* ------------------------------------------- build, sign, broadcast (theta.js)
\* the catch of the route the request belongs to: the update route persists
\* the error, the legacy route only answers
RouteCatch(R, message) ==
  /\ reqs' = [reqs EXCEPT ![R.slot] = Respond(R.rec, 500, FALSE, FALSE, message)]
  /\ configs' = IF R.rec.route = "update"
                THEN PersistError(configs, R.rec.id, message) ELSE configs

\* updateOracle(oracleId, newValue, derivationPath): derive the sender, prepare
\* the transaction; then signAndBroadcastTransaction sends the signing request
TxBuild(r) ==
  /\ reqs[r].pc = "build"
  /\ \E ok \in BOOLEAN :
       /\ Faulty(ok)
       /\ IF ok
          THEN /\ reqs' = [reqs EXCEPT ![r] =
                    [reqs[r] EXCEPT !.pc = "sign", !.built = TRUE, !.signs = @ + 1,
                       !.sender = deriveAddressAndPublicKey(ContractAccount,
                                                            getDerivationPath(reqs[r].id))]]
               /\ UNCHANGED configs
          ELSE RouteCatch([slot |-> r, rec |-> reqs[r]], "updateOracle failed")
  /\ UNCHANGED <<now, chain, updatingOracles, isRunning, schedulerInterval,
                 timers, autoStart, loops, dueCall, call, wallets>>

\* signAndBroadcastTransaction with a retry: a failed signing is asked again
TxSign_Retry(r) ==
  /\ reqs[r].pc = "sign"
  /\ \E ok \in BOOLEAN :
       /\ Faulty(ok)
       /\ reqs' = [reqs EXCEPT ![r] =
                    IF ok THEN [@ EXCEPT !.pc = "bcast", !.bcasts = @ + 1]
                    ELSE [@ EXCEPT !.signs = @ + 1]]
       /\ UNCHANGED configs
  /\ UNCHANGED <<now, chain, updatingOracles, isRunning, schedulerInterval,
                 timers, autoStart, loops, dueCall, call, wallets>>

\* signWithAgent ends; the transaction is finalized and the broadcast is sent
TxSign(r) ==
  /\ reqs[r].pc = "sign"
  /\ \E ok \in BOOLEAN :
       /\ Faulty(ok)
       /\ IF ok
          THEN /\ reqs' = [reqs EXCEPT ![r] = [@ EXCEPT !.pc = "bcast", !.bcasts = @ + 1]]
               /\ UNCHANGED configs
          ELSE RouteCatch([slot |-> r, rec |-> reqs[r]], "Failed to broadcast transaction.")
  /\ UNCHANGED <<now, chain, updatingOracles, isRunning, schedulerInterval,
                 timers, autoStart, loops, dueCall, call, wallets>>

\* theta.js lines 1019-1037: the message for a broadcast failure
BroadcastMessage(failure) ==
  CASE failure = "could not replace existing tx"
         -> "Transaction replacement error - please wait a moment before trying again."
    [] failure = "insufficient funds" -> "Insufficient funds for transaction."
    [] failure = "already known" -> "Transaction already pending - please wait for confirmation."
    [] failure = "nonce too low" -> "Nonce error - transaction may have already been processed."
    [] OTHER -> "Failed to broadcast transaction."

\* the failure texts the catch of signAndBroadcastTransaction tells apart
FailureTexts ==
  {"could not replace existing tx", "insufficient funds", "already known",
   "nonce too low", "other"}

\* scheduler.js lines 107-120: how executeOracleUpdate logs an answer that is
\* not a success: console.log for a message with 'already pending' or
\* 'Nonce error', console.error for any other
SchedulerLog(error) ==
  IF error = "Transaction already pending - please wait for confirmation." THEN "log"
  ELSE IF error = "Nonce error - transaction may have already been processed." THEN "log"
  ELSE "error"

BroadcastFailures == {"already known", "nonce too low", "other"}

\* Evm.broadcastTx ends: acknowledged (the contract runs the call) or failed
TxBroadcast(r) ==
  /\ reqs[r].pc = "bcast"
  /\ LET R == reqs[r] IN
     \/ /\ chain' = ContractUpdateOracle(chain, R.id, R.sender, R.new)
        /\ configs' = IF R.route = "update" THEN PersistSuccess(configs, R) ELSE configs
        /\ reqs' = [reqs EXCEPT ![r] = Respond(R, 200, TRUE, FALSE, "none")]
        /\ Faulty(TRUE)
     \/ /\ Faulty(FALSE)
        /\ \E failure \in BroadcastFailures :
             RouteCatch([slot |-> r, rec |-> R], BroadcastMessage(failure))
        /\ UNCHANGED chain
  /\ UNCHANGED <<now, updatingOracles, isRunning, schedulerInterval, timers,
                 autoStart, loops, dueCall, call, wallets>>

\* ------------------------------------------------------------ manual trigger
PostIds == Ids \cup {"x"}     \* "x": an id with no config

\* POST /api/oracles/[id]/update from the dashboard
ManualPost ==
  /\ Event
  /\ \E oracleId \in PostIds, r \in ReqIds :
       /\ FreeSlot(r)
       /\ reqs' = [reqs EXCEPT ![r] = NewReq("update", oracleId, 0)]
  /\ UNCHANGED <<now, configs, chain, updatingOracles, isRunning,
                 schedulerInterval, timers, autoStart, loops, dueCall, call, wallets>>

\* the dashboard receives the answer
ManualReturn ==
  /\ \E r \in ReqIds :
       /\ reqs[r].pc = "done" /\ reqs[r].origin = 0
       /\ reqs' = [reqs EXCEPT ![r] = FreeReq]
  /\ UNCHANGED <<now, events, configs, chain, updatingOracles, isRunning,
                 schedulerInterval, timers, autoStart, loops, dueCall, call, wallets>>

\* ------------------------------------------------- wallet-manager.js balance
\* a balance in wei is the sequence of its decimal digits (balance.toString())
padStart(str, n) ==
  IF Len(str) >= n THEN str
  ELSE [i \in 1..n |-> IF i <= n - Len(str) THEN 0 ELSE str[i - (n - Len(str))]]

RECURSIVE ToNumber(_)
ToNumber(str) ==
  IF str = <<>> THEN 0
  ELSE 10 * ToNumber(SubSeq(str, 1, Len(str) - 1)) + str[Len(str)]

\* the first `places` digits after the point
FractionDigits(fraction, places) ==
  [i \in 1..places |-> IF i <= Len(fraction) THEN fraction[i] ELSE 0]

\* formatBalance(balance, decimals, decimalPlaces): the string with
\* decimalPlaces digits after the point, given as its number of 10^-decimalPlaces
\* units; toFixed rounds to the nearest unit on the first dropped digit
formatBalance(balance, decimals, decimalPlaces) ==
  LET strValue == IF Len(balance) <= decimals THEN padStart(balance, decimals + 1)
                  ELSE balance
      decimalPos == Len(strValue) - decimals
      whole == SubSeq(strValue, 1, decimalPos)
      fraction == SubSeq(strValue, decimalPos + 1, Len(strValue))
      roundUp == Len(fraction) > decimalPlaces /\ fraction[decimalPlaces + 1] >= 5
  IN ToNumber(whole \o FractionDigits(fraction, decimalPlaces))
       + (IF roundUp THEN 1 ELSE 0)

\* x < y for balances in wei (BigInt comparison, on the digits)
WeiLess(x, y) ==
  \/ Len(x) < Len(y)
  \/ /\ Len(x) = Len(y)
     /\ \E i \in 1..Len(x) : x[i] < y[i] /\ \A j \in 1..(i - 1) : x[j] = y[j]

\* checkMinimumBalance(address, minAmount) once checkWalletBalance gave
\* `balance`; amounts in units of 10^-DecimalPlaces
checkMinimumBalance(balance, minAmount) ==
  LET balanceValue == formatBalance(balance, EvmDecimals, DecimalPlaces)
  IN [balance |-> balanceValue, minAmount |-> minAmount,
      hasMinimum |-> balanceValue >= minAmount,
      shortfall |-> IF balanceValue < minAmount THEN minAmount - balanceValue ELSE 0]

\* getOracleAddress(oracleId): deriveOracleWallet derives from workerAccountId
getOracleAddress(oracleId) == deriveAddressAndPublicKey(WorkerAccount, oracleId)

\* ------------------------------------------------------ legacy update route
\* Math.floor(numericValue * 100), numericValue = num / den
ValueInCents(numericValue) == (numericValue.num * 100) \div numericValue.den

\* POST {oracleId, newValue} to the legacy update route
LegacyPost ==
  /\ Event
  /\ \E oracleId \in PostIds, newValue \in RawPrices, r \in ReqIds :
       /\ FreeSlot(r)
       /\ reqs' = [reqs EXCEPT ![r] =
                    [NewReq("legacy", oracleId, 0) EXCEPT !.new = ValueInCents(newValue)]]
  /\ UNCHANGED <<now, configs, chain, updatingOracles, isRunning,
                 schedulerInterval, timers, autoStart, loops, dueCall, call, wallets>>

\* `await checkOracleExists(oracleId)` ends: 404, or the catch of the route
LegacyExists(r) ==
  /\ reqs[r].pc = "start" /\ reqs[r].route = "legacy"
  /\ \E ok \in BOOLEAN :
       /\ Faulty(ok)
       /\ reqs' = [reqs EXCEPT ![r] =
            IF ~ok THEN Respond(reqs[r], 500, FALSE, FALSE, "checkOracleExists failed")
            ELSE IF ~chain[reqs[r].id].exists
            THEN Respond(reqs[r], 404, FALSE, FALSE, "Oracle does not exist")
            ELSE [reqs[r] EXCEPT !.pc = "auth"]]
  /\ UNCHANGED <<now, configs, chain, updatingOracles, isRunning,
                 schedulerInterval, timers, autoStart, loops, dueCall, call, wallets>>

\* getOracleAddress and getOracleCreator end: the creator check
LegacyAuth(r) ==
  /\ reqs[r].pc = "auth"
  /\ \E ok \in BOOLEAN :
       /\ Faulty(ok)
       /\ reqs' = [reqs EXCEPT ![r] =
            IF ~ok THEN Respond(reqs[r], 400, FALSE, FALSE, "Failed to verify oracle creator")
            ELSE IF chain[reqs[r].id].creator # getOracleAddress(reqs[r].id)
            THEN Respond(reqs[r], 403, FALSE, FALSE,
                         "Only the oracle creator can update the oracle")
            ELSE [reqs[r] EXCEPT !.pc = "balance"]]
  /\ UNCHANGED <<now, configs, chain, updatingOracles, isRunning,
                 schedulerInterval, timers, autoStart, loops, dueCall, call, wallets>>

\* checkMinimumBalance(address, 0.001) ends: 400 with the shortfall, or on to
\* updateOracle
LegacyBalance(r) ==
  /\ reqs[r].pc = "balance"
  /\ \E ok \in BOOLEAN :
       /\ Faulty(ok)
       /\ LET balanceCheck == checkMinimumBalance(wallets[getOracleAddress(reqs[r].id)],
                                                  MinGasAmount)
              R == [reqs[r] EXCEPT !.micro = balanceCheck.balance,
                                   !.shortfall = balanceCheck.shortfall]
          IN reqs' = [reqs EXCEPT ![r] =
               IF ~ok THEN Respond(reqs[r], 500, FALSE, FALSE, "checkMinimumBalance failed")
               ELSE IF ~balanceCheck.hasMinimum
               THEN Respond(R, 400, FALSE, FALSE, "Insufficient balance for gas fees")
               ELSE [R EXCEPT !.pc = "build"]]
  /\ UNCHANGED <<now, configs, chain, updatingOracles, isRunning,
                 schedulerInterval, timers, autoStart, loops, dueCall, call, wallets>>

\* ------------------------------------------------------------------ initial
\* a config as addOracleConfig stores it (lastUpdate: null, isActive: false)
NewConfig ==
  [lastUpdate |-> NoTime, nextUpdate |-> NoTime, updateInterval |-> 1,
   updateIntervalMinutes |-> Undef, priceMultiplier |-> 100, multiplier |-> Undef,
   isActive |-> FALSE, hasError |-> FALSE, errorMessage |-> "",
   lastErrorAt |-> NoTime, lastTxHash |-> <<>>, lastValue |-> Undef]

\* configs of earlier runs: updated at time 0 with an interval of 1 or 2
\* minutes, or written by an older version (no updateInterval, no priceMultiplier)
\* a config written by an older version: no updateInterval, no priceMultiplier
StoredLegacy ==
  [NewConfig EXCEPT !.lastUpdate = 0, !.updateInterval = Undef,
                    !.updateIntervalMinutes = 1, !.priceMultiplier = Undef]

\* a config whose interval is negative: the create routes only reject a
\* missing or zero interval
StoredNegative == [NewConfig EXCEPT !.lastUpdate = 0, !.updateInterval = -5]

StoredConfigs ==
  { NewConfig,
    [NewConfig EXCEPT !.lastUpdate = 0, !.nextUpdate = MinuteMs],
    [NewConfig EXCEPT !.lastUpdate = 0, !.nextUpdate = 2 * MinuteMs,
                      !.updateInterval = 2],
    StoredLegacy }

InitialValue == 4250     \* the on-chain value before the run

OracleAddress(oracleId) ==
  deriveAddressAndPublicKey(ContractAccount, getDerivationPath(oracleId))

\* the derived addresses: of the contract account (theta.js) and of the worker
\* account (wallet-manager.js), one per derivation path
Addresses == {deriveAddressAndPublicKey(account, i) :
                account \in {ContractAccount, WorkerAccount}, i \in PostIds}

\* the digits of lead * 10^zeros
Wei(lead, zeros) == lead \o [i \in 1..zeros |-> 0]

Funded == Wei(<<2>>, 18)       \* 2 ETH
\* 0, 0.0005, 0.0009996, 0.001 and 2 ETH
Balances == {<<0>>, Wei(<<5>>, 14), Wei(<<9, 9, 9, 6>>, 11), Wei(<<1>>, 15), Funded}

\* nothing in progress: scheduler stopped, no loop, no request
InitIdle ==
  /\ now = StartTime
  /\ events = 0
  /\ updatingOracles = {}
  /\ isRunning = FALSE
  /\ schedulerInterval = NoHandle
  /\ timers = {}
  /\ loops = [l \in LoopIds |-> IdleLoop]
  /\ reqs = [r \in ReqIds |-> FreeReq]
  /\ dueCall = NoCall

InitCommon == InitIdle /\ call = [fn |-> "none"]

\* the contract storage: the oracles of `deployed` exist, created by `creator`
Deployed(deployed, creator) ==
  [i \in PostIds |-> [exists |-> i \in deployed, value |-> InitialValue,
                      creator |-> creator[i], hasError |-> FALSE]]

\* the scheduler module was imported at StartTime; every config is of this
\* version of the code, never updated or due now; every oracle is deployed
Init ==
  /\ InitCommon
  /\ autoStart = TRUE
  /\ configs \in [Ids -> {NewConfig, [NewConfig EXCEPT !.lastUpdate = 0,
                                                       !.nextUpdate = MinuteMs]}]
  /\ chain = Deployed(Ids, [i \in PostIds |-> OracleAddress(i)])
  /\ wallets = [a \in Addresses |-> Funded]

\* the scheduler module was imported at StartTime and getOraclesDueForUpdate
\* is called; any stored configs, any set of deployed oracles
InitDue ==
  /\ InitCommon
  /\ autoStart = TRUE
  /\ configs \in [Ids -> StoredConfigs]
  /\ \E deployed \in SUBSET Ids :
       chain = Deployed(deployed, [i \in PostIds |-> OracleAddress(i)])
  /\ wallets = [a \in Addresses |-> Funded]

\* the routes alone (the scheduler module is not loaded): the oracles were
\* created from the contract account's address, from the worker account's
\* address or by somebody else, and the wallets hold any of the balances
InitRoutes ==
  /\ InitCommon
  /\ autoStart = FALSE
  /\ \E c \in {NewConfig, StoredLegacy} : configs = [i \in Ids |-> c]
  /\ \E deployed \in {Ids, {"a"}}, account \in {ContractAccount, WorkerAccount, "other"} :
       chain = Deployed(deployed,
                        [i \in PostIds |-> deriveAddressAndPublicKey(account, i)])
  /\ \E ofWorker \in Balances, ofContract \in {<<0>>, Funded} :
       wallets = [a \in Addresses |->
                    IF a[1] = WorkerAccount THEN ofWorker ELSE ofContract]

NextRoutes ==
  \/ ManualPost
  \/ LegacyPost
  \/ ManualReturn
  \/ \E r \in ReqIds : HandlerStart(r)
  \/ \E r \in ReqIds : HandlerRead(r)
  \/ \E r \in ReqIds : HandlerFetch(r)
  \/ \E r \in ReqIds : LegacyExists(r)
  \/ \E r \in ReqIds : LegacyAuth(r)
  \/ \E r \in ReqIds : LegacyBalance(r)
  \/ \E r \in ReqIds : TxBuild(r)
  \/ \E r \in ReqIds : TxSign(r)
  \/ \E r \in ReqIds : TxBroadcast(r)

SpecRoutes == InitRoutes /\ [][NextRoutes]_vars

\* -------------------------------------------------------- balance endpoint
\* the digits after the display places cut off
convertToDecimal_Floor(bigIntValue, decimals, decimalPlaces) ==
  LET strValue == IF Len(bigIntValue) <= decimals
                  THEN padStart(bigIntValue, decimals + 1) ELSE bigIntValue
      decimalPos == Len(strValue) - decimals
  IN ToNumber(SubSeq(strValue, 1, decimalPos)
              \o FractionDigits(SubSeq(strValue, decimalPos + 1, Len(strValue)),
                                decimalPlaces))

\* convertToDecimal(bigIntValue, decimals, decimalPlaces) of theta.js, as the
\* number of 10^-decimalPlaces units its string denotes
convertToDecimal(bigIntValue, decimals, decimalPlaces) ==
  LET strValue == IF Len(bigIntValue) <= decimals
                  THEN padStart(bigIntValue, decimals + 1) ELSE bigIntValue
      decimalPos == Len(strValue) - decimals
      whole == SubSeq(strValue, 1, decimalPos)
      fraction == SubSeq(strValue, decimalPos + 1, Len(strValue))
      roundUp == Len(fraction) > decimalPlaces /\ fraction[decimalPlaces + 1] >= 5
  IN ToNumber(whole \o FractionDigits(fraction, decimalPlaces))
       + (IF roundUp THEN 1 ELSE 0)

\* deriveWalletAddress(oracleId) -> address
deriveWalletAddress(oracleId) ==
  deriveAddressAndPublicKey(ContractAccount, getDerivationPath(oracleId))

\* getWalletBalance(oracleId) -> integer: the balance of that address, in wei
getWalletBalance(oracleId) == wallets[deriveWalletAddress(oracleId)]

\* BigInt('100000000000000')
MinimumBalance == Wei(<<1>>, 14)

\* GET /api/oracles/[id]/balance, from the request to the answer
BalanceEndpoint ==
  /\ call.fn = "balance" /\ call.pc = "called"
  /\ LET oracleId == call.oracleId
         balanceWei == getWalletBalance(oracleId)
         balanceEth == convertToDecimal(balanceWei, EvmDecimals, DecimalPlaces)
         hasMinimum == ~WeiLess(balanceWei, MinimumBalance)
     IN call' = [call EXCEPT !.pc = "returned", !.status = 200,
                   !.address = deriveWalletAddress(oracleId),
                   !.raw = balanceWei, !.eth = balanceEth,
                   !.hasMinimum = hasMinimum]
  /\ UNCHANGED <<now, events, configs, chain, updatingOracles, isRunning,
                 schedulerInterval, timers, autoStart, loops, reqs, dueCall, wallets>>

\* balances around the minimum: 0 and lead * 10^zeros
WalletBalances ==
  {<<0>>} \cup {Wei(lead, zeros) : lead \in {<<1>>, <<5>>, <<9, 9>>, <<1, 0, 1>>},
                                   zeros \in 11..16}

\* a GET for one id, the wallets holding any of the balances
InitBalance ==
  /\ InitIdle
  /\ autoStart = FALSE
  /\ configs = [i \in Ids |-> NewConfig]
  /\ chain = Deployed(Ids, [i \in PostIds |-> OracleAddress(i)])
  /\ \E balance \in WalletBalances : wallets = [a \in Addresses |-> balance]
  /\ \E oracleId \in PostIds :
       call = [fn |-> "balance", pc |-> "called", oracleId |-> oracleId,
               status |-> 0, address |-> ZeroAddress, raw |-> <<>>, eth |-> 0,
               hasMinimum |-> FALSE]

NextBalance == BalanceEndpoint

SpecBalance == InitBalance /\ [][NextBalance]_vars

\* ------------------------------------------------- extractValueFromPath
\* a JavaScript value: its kind and its payload (a number, the characters of
\* a string, the members of an object, the elements of an array)
Json(t, v) == [t |-> t, v |-> v]

Undefined == Json("undefined", 0)

\* a JavaScript number: finite (num / den, den a power of ten, in lowest such
\* terms), infinite or NaN
RECURSIVE Finite(_, _)
Finite(num, den) ==
  IF den > 1 /\ num % 10 = 0 THEN Finite(num \div 10, den \div 10)
  ELSE [kind |-> "finite", num |-> num, den |-> den]

Infinite == [kind |-> "inf", num |-> 1, den |-> 0]
NaN == [kind |-> "nan", num |-> 0, den |-> 0]

\* isNaN(x) for a number x
isNaN(x) == x.kind = "nan"

\* the largest decimal exponent of a finite double
MaxExponent == 308

DigitChars == {"0", "1", "2", "3", "4", "5", "6", "7", "8", "9"}

DigitOf(ch) ==
  CASE ch = "0" -> 0 [] ch = "1" -> 1 [] ch = "2" -> 2 [] ch = "3" -> 3
    [] ch = "4" -> 4 [] ch = "5" -> 5 [] ch = "6" -> 6 [] ch = "7" -> 7
    [] ch = "8" -> 8 [] ch = "9" -> 9

\* the digits of str from position i on, up to the first non-digit
RECURSIVE DigitRun(_, _)
DigitRun(str, i) ==
  IF i <= Len(str) /\ str[i] \in DigitChars
  THEN <<DigitOf(str[i])>> \o DigitRun(str, i + 1)
  ELSE <<>>

RECURSIVE Pow10(_)
Pow10(n) == IF n = 0 THEN 1 ELSE 10 * Pow10(n - 1)

\* parseFloat(string), the string given as its characters (a word such as
\* Infinity or abc is one element): leading blanks, a sign, then Infinity or
\* the longest decimal literal; NaN when there is none
parseFloat(str) ==
  LET blanks == Len(SelectSeq(str, LAMBDA ch : ch = " "))
      s0 == IF str # <<>> /\ \A i \in 1..blanks : str[i] = " " THEN blanks + 1 ELSE 1
      signed == s0 <= Len(str) /\ str[s0] \in {"+", "-"}
      sign == IF signed /\ str[s0] = "-" THEN -1 ELSE 1
      p == IF signed THEN s0 + 1 ELSE s0
      int == DigitRun(str, p)
      q == p + Len(int)
      dotted == q <= Len(str) /\ str[q] = "."
      frac == IF dotted THEN DigitRun(str, q + 1) ELSE <<>>
      e == IF dotted THEN q + 1 + Len(frac) ELSE q
      esigned == e + 1 <= Len(str) /\ str[e + 1] \in {"+", "-"}
      edigits == IF e <= Len(str) /\ str[e] \in {"e", "E"}
                 THEN DigitRun(str, IF esigned THEN e + 2 ELSE e + 1) ELSE <<>>
      exponent == IF esigned /\ str[e + 1] = "-" THEN 0 - ToNumber(edigits)
                  ELSE ToNumber(edigits)
      mantissa == ToNumber(int \o frac)
  IN IF p <= Len(str) /\ str[p] = "Infinity" THEN [Infinite EXCEPT !.num = sign]
     ELSE IF int = <<>> /\ frac = <<>> THEN NaN
     ELSE IF mantissa = 0 THEN Finite(0, 1)
     ELSE IF exponent + Len(int) > MaxExponent THEN Infinite
     ELSE IF exponent >= Len(frac)
          THEN Finite(sign * mantissa * Pow10(exponent - Len(frac)), 1)
     ELSE Finite(sign * mantissa, Pow10(Len(frac) - exponent))

\* typeof value
TypeOf(value) ==
  CASE value.t \in {"object", "array", "null"} -> "object"
    [] OTHER -> value.t

\* the 1-based position an array index key denotes, 0 for any other key
IndexOf(key) == CASE key = "0" -> 1 [] key = "1" -> 2 [] OTHER -> 0

\* names every object inherits from Object.prototype or Array.prototype
Inherited == {"constructor", "toString"}

\* value[key] for a value with typeof 'object' that is not null
GetProperty(value, key) ==
  CASE value.t = "object" /\ key \in DOMAIN value.v -> value.v[key]
    [] value.t = "array" /\ IndexOf(key) \in 1..Len(value.v) -> value.v[IndexOf(key)]
    [] value.t = "array" /\ key = "length" -> Json("number", Finite(Len(value.v), 1))
    [] key \in Inherited -> Json("function", 0)
    [] OTHER -> Undefined

\* path.split('.'), the path given as its tokens: names and "."
RECURSIVE split(_)
split(path) ==
  IF path = <<>> THEN <<"">>
  ELSE LET rest == split(Tail(path))
       IN IF Head(path) = "." THEN <<"">> \o rest
          ELSE <<Head(path) \o Head(rest)>> \o Tail(rest)

\* the result of a call: the value returned, or the error thrown
Returned(value) == [ok |-> TRUE, value |-> value, error |-> "none"]
Thrown(error) == [ok |-> FALSE, value |-> NaN, error |-> error]

\* lines 265-278: the loop from key number i on
RECURSIVE Descend(_, _, _)
Descend(value, keys, i) ==
  IF i > Len(keys) THEN Returned(value)
  ELSE IF value.t \in {"null", "undefined"} THEN Thrown("Path not found: value is null")
  ELSE IF TypeOf(value) # "object" THEN Thrown("Path not found: cannot access property")
  ELSE Descend(GetProperty(value, keys[i]), keys, i + 1)

\* extractValueFromPath(obj, path)
extractValueFromPath(obj, path) ==
  LET keys == split(path)
      found == Descend(obj, keys, 1)
      value == found.value
  IN IF ~found.ok THEN found
     ELSE IF value.t \in {"null", "undefined"} THEN Thrown("Path exists but value is null")
     ELSE IF TypeOf(value) = "string"
          THEN LET numericValue == parseFloat(value.v)
               IN IF isNaN(numericValue) THEN Thrown("not a valid number")
                  ELSE Returned(numericValue)
     ELSE IF TypeOf(value) = "number"
          THEN IF isNaN(value.v) THEN Thrown("is NaN") ELSE Returned(value.v)
     ELSE Thrown("not a number or numeric string")

\* API responses: {"data":{"price":42}} and variations of it
Price(leaf) == Json("object", [k \in {"data"} |->
                 Json("object", [j \in {"price"} |-> leaf])])

\* string leaves: "42.5", "43", " -0.50", "1e2", "25e-1", "7abc", ".5", "",
\* "abc", "Infinity", "-Infinity", "1e999", "-", "4.", "1e"
Strings ==
  { <<"4", "2", ".", "5">>, <<"4", "3">>, <<" ", "-", "0", ".", "5", "0">>,
    <<"1", "e", "2">>, <<"2", "5", "e", "-", "1">>, <<"7", "abc">>, <<".", "5">>,
    <<>>, <<"abc">>, <<"Infinity">>, <<"-", "Infinity">>, <<"1", "e", "9", "9", "9">>,
    <<"-">>, <<"4", ".">>, <<"1", "e">> }

\* number leaves: 42, 42.5, and 1e999, which JSON.parse reads as Infinity
Numbers == {Finite(42, 1), Finite(425, 10), Infinite}

Documents ==
  { Price(Json("string", str)) : str \in Strings }
  \cup { Price(Json("number", n)) : n \in Numbers }
  \cup
  { Price(Json("null", 0)),
    Price(Json("boolean", 1)),
    Price(Json("array", <<Json("number", Finite(5, 1)), Json("number", Finite(6, 1))>>)),
    Json("object", [k \in {"data"} |-> Json("null", 0)]),
    Json("object", [k \in {"data"} |-> Json("number", Finite(7, 1))]),
    Json("object", [k \in {"data"} |-> Json("object", <<>>)]),
    Json("object", [k \in {"data"} |->
       Json("array", <<Json("number", Finite(5, 1)), Json("number", Finite(6, 1)),
                       Json("number", Finite(7, 1))>>)]),
    Json("object", [k \in {"price", ""} |-> Json("number", Finite(44, 1))]) }

\* data paths, as tokens
Paths ==
  { <<"data", ".", "price">>, <<"data">>, <<"price">>, <<>>,
    <<"data", ".", "price", ".", "x">>, <<"data", ".", "x", ".", "price">>,
    <<"data", ".", "length">>, <<"data", ".", "1">>, <<"data", ".", "price", ".", "0">>,
    <<"data", ".", "constructor">>, <<"constructor">>, <<"data", ".", ".", "price">>,
    <<"x", ".", "y">> }

\* a call of extractValueFromPath on any of the documents and paths
InitExtract ==
  /\ InitIdle
  /\ autoStart = FALSE
  /\ configs = [i \in Ids |-> NewConfig]
  /\ chain = Deployed(Ids, [i \in PostIds |-> OracleAddress(i)])
  /\ wallets = [a \in Addresses |-> Funded]
  /\ \E obj \in Documents, path \in Paths :
       call = [fn |-> "extract", pc |-> "called", obj |-> obj, path |-> path,
               res |-> Thrown("none")]

ExtractCall ==
  /\ call.fn = "extract" /\ call.pc = "called"
  /\ call' = [call EXCEPT !.pc = "returned",
                          !.res = extractValueFromPath(call.obj, call.path)]
  /\ UNCHANGED <<now, events, configs, chain, updatingOracles, isRunning,
                 schedulerInterval, timers, autoStart, loops, reqs, dueCall, wallets>>

NextExtract == ExtractCall

SpecExtract == InitExtract /\ [][NextExtract]_vars

\* ------------------------------------------- the computation of newValue
\* the stored multipliers: 0, 1, 100 and the default 10000
Multipliers == {0, 1, 100, DefaultMultiplier}

\* rawPrice * priceMultiplier where rawPrice is Infinity or NaN
Multiply(rawPrice, priceMultiplier) ==
  IF rawPrice.kind = "inf" /\ priceMultiplier # 0
  THEN [Infinite EXCEPT !.num = IF priceMultiplier > 0 THEN rawPrice.num
                                 ELSE -rawPrice.num]
  ELSE NaN

\* the handler returns a 400 response
Rejected(error) == [status |-> 400, newValue |-> NaN, error |-> error]

\* the handler goes on to the comparison with newValue
Computed(newValue) == [status |-> 0, newValue |-> newValue, error |-> "none"]

\* lines 139-157 of the handler, given what extractValueFromPath returned or
\* threw at line 129: validation, rounding, validation
NewValue(extracted, priceMultiplier) ==
  IF ~extracted.ok THEN Rejected("Failed to extract price from API response")
  ELSE IF isNaN(extracted.value) THEN Rejected("Invalid price value extracted")
  ELSE IF extracted.value.kind = "finite"
       THEN Computed(Finite(RoundedValue(extracted.value, priceMultiplier), 1))
  ELSE IF isNaN(Multiply(extracted.value, priceMultiplier))
       THEN Rejected("Invalid final value calculated")
  ELSE Computed(Multiply(extracted.value, priceMultiplier))

\* the handler has the API response and the multiplier of the config
InitCompute ==
  /\ InitIdle
  /\ autoStart = FALSE
  /\ configs = [i \in Ids |-> NewConfig]
  /\ chain = Deployed(Ids, [i \in PostIds |-> OracleAddress(i)])
  /\ wallets = [a \in Addresses |-> Funded]
  /\ \E obj \in Documents, path \in Paths, priceMultiplier \in Multipliers :
       call = [fn |-> "compute", pc |-> "called", obj |-> obj, path |-> path,
               priceMultiplier |-> priceMultiplier, res |-> Rejected("none")]

HandlerCompute ==
  /\ call.fn = "compute" /\ call.pc = "called"
  /\ \E extracted \in {extractValueFromPath(call.obj, call.path)} :
       call' = [call EXCEPT !.pc = "returned",
                            !.res = NewValue(extracted, call.priceMultiplier)]
  /\ UNCHANGED <<now, events, configs, chain, updatingOracles, isRunning,
                 schedulerInterval, timers, autoStart, loops, reqs, dueCall, wallets>>

NextCompute == HandlerCompute

SpecCompute == InitCompute /\ [][NextCompute]_vars

\* ------------------------------------------- convertToDecimal on its own
\* the longest string of digits a formatted value has in the runs
MaxDigits == 9

Chars == <<"0", "1", "2", "3", "4", "5", "6", "7", "8", "9">>

\* the characters of a non-negative integer
RECURSIVE ToChars(_)
ToChars(n) ==
  IF n < 10 THEN <<Chars[n + 1]>>
  ELSE ToChars(n \div 10) \o <<Chars[(n % 10) + 1]>>

\* toFixed(decimalPlaces) of a number of `units` 10^-decimalPlaces units: the
\* characters of the string convertToDecimal returns
toFixed(units, decimalPlaces) ==
  ToChars(units \div Pow10(decimalPlaces))
    \o (IF decimalPlaces = 0 THEN <<>>
        ELSE <<".">> \o [i \in 1..decimalPlaces |->
                          Chars[((units \div Pow10(decimalPlaces - i)) % 10) + 1]])

\* raw values: 0, 5, 50, 996, 1004, 300000, 123456789, 1.5 * 10^18, 42 * 10^16
RawValues ==
  { <<0>>, <<5>>, <<5, 0>>, <<9, 9, 6>>, <<1, 0, 0, 4>>, <<3, 0, 0, 0, 0, 0>>,
    <<1, 2, 3, 4, 5, 6, 7, 8, 9>>, Wei(<<1, 5>>, 17), Wei(<<4, 2>>, 16),
    <<9, 9, 9, 9, 9, 5>>, <<4, 2, 5, 0>>, <<1>> }

\* (decimals, decimalPlaces) of the calls: (2, 2) for oracle values, (18, 6)
\* for balances, and others
DecimalArguments == {<<2, 2>>, <<18, 6>>, <<3, 6>>, <<3, 2>>, <<2, 0>>, <<18, 2>>, <<0, 2>>}

\* a call of convertToDecimal whose result has no more than MaxDigits digits
InitConvert ==
  /\ InitIdle
  /\ autoStart = FALSE
  /\ configs = [i \in Ids |-> NewConfig]
  /\ chain = Deployed(Ids, [i \in PostIds |-> OracleAddress(i)])
  /\ wallets = [a \in Addresses |-> Funded]
  /\ \E bigIntValue \in RawValues, a \in DecimalArguments :
       /\ Len(bigIntValue) - a[1] + a[2] <= MaxDigits
       /\ call = [fn |-> "convert", pc |-> "called", bigIntValue |-> bigIntValue,
                  decimals |-> a[1], decimalPlaces |-> a[2], res |-> <<>>]

ConvertCall ==
  /\ call.fn = "convert" /\ call.pc = "called"
  /\ call' = [call EXCEPT !.pc = "returned",
                 !.res = toFixed(convertToDecimal(call.bigIntValue, call.decimals,
                                                  call.decimalPlaces),
                                 call.decimalPlaces)]
  /\ UNCHANGED <<now, events, configs, chain, updatingOracles, isRunning,
                 schedulerInterval, timers, autoStart, loops, reqs, dueCall, wallets>>

NextConvert == ConvertCall

SpecConvert == InitConvert /\ [][NextConvert]_vars

\* ------------------------------------------------- the contract on its own
\* transactions reach the contract from any sender, in any order
Senders == {deriveAddressAndPublicKey(account, i) :
              account \in {ContractAccount, WorkerAccount}, i \in Ids}

\* the values sent: the initial value and the values the routes compute
ContractValues == {InitialValue} \cup {RoundedValue(p, 100) : p \in RawPrices}

SendCreateOracle(sender, oracleId, initialValue) ==
  /\ chain' = ContractCreateOracle(chain, oracleId, sender, initialValue)
  /\ UNCHANGED <<now, events, configs, updatingOracles, isRunning,
                 schedulerInterval, timers, autoStart, loops, reqs, dueCall, call, wallets>>

SendUpdateOracle(sender, oracleId, newValue) ==
  /\ chain' = ContractUpdateOracle(chain, oracleId, sender, newValue)
  /\ UNCHANGED <<now, events, configs, updatingOracles, isRunning,
                 schedulerInterval, timers, autoStart, loops, reqs, dueCall, call, wallets>>

SendSetOracleError(sender, oracleId, errorStatus) ==
  /\ chain' = ContractSetOracleError(chain, oracleId, sender, errorStatus)
  /\ UNCHANGED <<now, events, configs, updatingOracles, isRunning,
                 schedulerInterval, timers, autoStart, loops, reqs, dueCall, call, wallets>>

\* the contract as deployed: no oracle yet
InitContract ==
  /\ InitCommon
  /\ autoStart = FALSE
  /\ configs = [i \in Ids |-> NewConfig]
  /\ chain = [i \in PostIds |-> NoOracle]
  /\ wallets = [a \in Addresses |-> Funded]

NextContract ==
  \/ \E sender \in Senders, oracleId \in PostIds, v \in ContractValues :
       SendCreateOracle(sender, oracleId, v)
  \/ \E sender \in Senders, oracleId \in PostIds, v \in ContractValues :
       SendUpdateOracle(sender, oracleId, v)
  \/ \E sender \in Senders, oracleId \in PostIds, e \in BOOLEAN :
       SendSetOracleError(sender, oracleId, e)

SpecContract == InitContract /\ [][NextContract]_vars

\* ------------------------------------------------------------ create route
\* deriveOracleWallet(oracleId).address: derived from workerAccountId
deriveOracleWallet(oracleId) == deriveAddressAndPublicKey(WorkerAccount, oracleId)

\* addOracleConfig(oracleData): throws when the name is taken (the route's
\* catch answers 500); else stores the data under the default status fields
addOracleConfig(cfgs, name, oracleData) ==
  IF name \in DOMAIN cfgs
  THEN cfgs
  ELSE [i \in DOMAIN cfgs \cup {name} |->
          IF i = name
          THEN [f \in DOMAIN NewConfig |->
                  IF f \in {"updateInterval", "priceMultiplier"} THEN Undef
                  ELSE IF f \in DOMAIN oracleData THEN oracleData[f]
                  ELSE NewConfig[f]]
          ELSE cfgs[i]]

\* the intervals posted: missing, one minute, negative
CreateIntervals == {0, 1, -5}

\* POST /api/oracles/create, from the request to the answer: validation,
\* existence and balance checks, createOracle sent from the address theta.js
\* derives, the config saved
CreateRoute ==
  /\ Event
  /\ \E oracleId \in PostIds, updateIntervalMinutes \in CreateIntervals,
        value \in RawPrices, ok \in BOOLEAN :
       LET address == getOracleAddress(oracleId)
           balanceCheck == checkMinimumBalance(wallets[address], MinCreateAmount)
           derivationPath == oracleId
           senderAddress == deriveAddressAndPublicKey(ContractAccount, derivationPath)
       IN IF \/ ~Truthy(updateIntervalMinutes)
             \/ ~ok                       \* a validation or a later call failed
             \/ chain[oracleId].exists
             \/ ~balanceCheck.hasMinimum
          THEN UNCHANGED <<chain, configs>>
          ELSE /\ chain' = ContractCreateOracle(chain, oracleId, senderAddress,
                                                ValueInCents(value))
               /\ configs' = addOracleConfig(configs, oracleId,
                                 [updateIntervalMinutes |-> updateIntervalMinutes])
  /\ UNCHANGED <<now, updatingOracles, isRunning, schedulerInterval, timers,
                 autoStart, loops, reqs, dueCall, call, wallets>>

\* a fresh deployment: no oracle, no config; every wallet holds 2 or 5 ETH
InitCreate ==
  /\ InitCommon
  /\ autoStart = FALSE
  /\ configs = [i \in {} |-> NewConfig]
  /\ chain = [i \in PostIds |-> NoOracle]
  /\ \E balance \in {Funded, Wei(<<5>>, 18)} : wallets = [a \in Addresses |-> balance]

NextCreate ==
  \/ CreateRoute
  \/ ManualPost
  \/ ManualReturn
  \/ \E r \in ReqIds : HandlerStart(r)
  \/ \E r \in ReqIds : HandlerRead(r)
  \/ \E r \in ReqIds : HandlerFetch(r)
  \/ \E r \in ReqIds : TxBuild(r)
  \/ \E r \in ReqIds : TxSign(r)
  \/ \E r \in ReqIds : TxBroadcast(r)

SpecCreate == InitCreate /\ [][NextCreate]_vars

\* the update route alone, with the clock: every stored config shape, the
\* oracles created from the address the route sends from, funded wallets
InitUpdate ==
  /\ InitCommon
  /\ autoStart = FALSE
  /\ \E c \in StoredConfigs \cup {StoredNegative} : configs = [i \in Ids |-> c]
  /\ \E deployed \in {Ids, {"a"}} :
       chain = Deployed(deployed, [i \in PostIds |-> OracleAddress(i)])
  /\ wallets = [a \in Addresses |-> Funded]

NextUpdate ==
  \/ ManualPost
  \/ ManualReturn
  \/ Advance
  \/ \E r \in ReqIds : HandlerStart(r)
  \/ \E r \in ReqIds : HandlerRead(r)
  \/ \E r \in ReqIds : HandlerFetch(r)
  \/ \E r \in ReqIds : TxBuild(r)
  \/ \E r \in ReqIds : TxSign(r)
  \/ \E r \in ReqIds : TxBroadcast(r)

SpecUpdate == InitUpdate /\ [][NextUpdate]_vars

NextDue ==
  \/ DueCallStart
  \/ DueCallStep
  \/ Advance

SpecDue == InitDue /\ [][NextDue]_vars

Next ==
  \/ PostStart
  \/ PostStop
  \/ AutoStart
  \/ Tick
  \/ Advance
  \/ \E l \in LoopIds : LoopScan(l)
  \/ \E l \in LoopIds : LoopExecReturn(l)
  \/ \E l \in LoopIds : LoopDelayDone(l)
  \/ ManualPost
  \/ ManualReturn
  \/ \E r \in ReqIds : HandlerStart(r)
  \/ \E r \in ReqIds : HandlerRead(r)
  \/ \E r \in ReqIds : HandlerFetch(r)
  \/ \E r \in ReqIds : TxBuild(r)
  \/ \E r \in ReqIds : TxSign(r)
  \/ \E r \in ReqIds : TxBroadcast(r)

Spec == Init /\ [][Next]_vars

\* ------------------------------------------------- the scheduler over time
\* the clock runs for ever: time is kept up to Horizon, and from then on the
\* clock stays and every stored time moves into the past instead; a time
\* older than the horizon is kept as 0
Horizon == 2 * MinuteMs
Elapsed == MinuteMs            \* the clock advances a minute at a time

Shift(t, s) == IF t = NoTime THEN NoTime ELSE IF t - s < 0 THEN 0 ELSE t - s

ShiftConfigs(cfgs, s) ==
  [i \in DOMAIN cfgs |->
     [cfgs[i] EXCEPT !.lastUpdate = Shift(@, s), !.nextUpdate = Shift(@, s),
                     !.lastErrorAt = Shift(@, s)]]

\* time passes; a scan in progress returns within Horizon less a minute
Elapse ==
  LET s == IF now + Elapsed > Horizon THEN now + Elapsed - Horizon ELSE 0
  IN /\ \A l \in LoopIds :
          loops[l].pc = "scan" => loops[l].currentTime - s >= MinuteMs
     /\ now' = now + Elapsed - s
     /\ configs' = ShiftConfigs(configs, s)
     /\ timers' = {[t EXCEPT !.at = Shift(@, s)] : t \in timers}
     /\ loops' = [l \in LoopIds |->
                    [loops[l] EXCEPT !.configs = ShiftConfigs(@, s),
                                     !.currentTime = Shift(@, s),
                                     !.wake = Shift(@, s)]]
     /\ UNCHANGED <<events, chain, updatingOracles, isRunning, schedulerInterval,
                    autoStart, reqs, dueCall, call, wallets>>

\* the scheduler and its update requests; the environment starts the
\* scheduler and makes calls fail, MaxEvents times in all
NextLive ==
  \/ PostStart
  \/ AutoStart
  \/ Tick
  \/ Elapse
  \/ \E l \in LoopIds : LoopScan(l)
  \/ \E l \in LoopIds : LoopExecReturn(l)
  \/ \E l \in LoopIds : LoopDelayDone(l)
  \/ \E r \in ReqIds : HandlerStart(r)
  \/ \E r \in ReqIds : HandlerRead(r)
  \/ \E r \in ReqIds : HandlerFetch(r)
  \/ \E r \in ReqIds : TxBuild(r)
  \/ \E r \in ReqIds : TxSign(r)
  \/ \E r \in ReqIds : TxBroadcast(r)

\* timers fire when they are due, every awaited call returns, time passes
Fairness ==
  /\ WF_vars(AutoStart)
  /\ WF_vars(Tick)
  /\ WF_vars(Elapse)
  /\ \A l \in LoopIds :
       WF_vars(LoopScan(l)) /\ WF_vars(LoopExecReturn(l)) /\ WF_vars(LoopDelayDone(l))
  /\ \A r \in ReqIds :
       /\ WF_vars(HandlerStart(r)) /\ WF_vars(HandlerRead(r))
       /\ WF_vars(HandlerFetch(r)) /\ WF_vars(TxBuild(r))
       /\ WF_vars(TxSign(r)) /\ WF_vars(TxBroadcast(r))

\* the environment events left to a run over time: starts and failing calls
MaxFaults == 1

\* as Init, with MaxFaults events left to the environment; oracle a is
\* deployed, oracle b is configured only and is passed over by every scan
InitLive ==
  /\ now = StartTime
  /\ events = MaxEvents - MaxFaults
  /\ updatingOracles = {}
  /\ isRunning = FALSE
  /\ schedulerInterval = NoHandle
  /\ timers = {}
  /\ loops = [l \in LoopIds |-> IdleLoop]
  /\ reqs = [r \in ReqIds |-> FreeReq]
  /\ dueCall = NoCall
  /\ call = [fn |-> "none"]
  /\ autoStart = TRUE
  /\ configs \in [Ids -> {NewConfig, [NewConfig EXCEPT !.lastUpdate = 0,
                                                       !.nextUpdate = MinuteMs]}]
  /\ chain = Deployed({"a"}, [i \in PostIds |-> OracleAddress(i)])
  /\ wallets = [a \in Addresses |-> Funded]

SpecLive == InitLive /\ [][NextLive]_vars /\ Fairness

\* =================================================================== claims
\* a route invocation that is running (not yet answered)
Running(r) == reqs[r].pc \notin {"free", "done"}

\* the oracle a loop's executeOracleUpdate call in flight is about
Executing(l) == loops[l].avail[loops[l].idx]

\* C1: for every oracle id at most one update attempt runs at any time, whether
\* the scheduler or a manual POST to the update route started it
C1_OneAttemptPerId ==
  \A i \in PostIds : Cardinality({r \in ReqIds : Running(r) /\ reqs[r].id = i}) <= 1

\* C2: a loop whose executeOracleUpdate(X) is called while X is in the updating
\* set gets false (skipped) in the same step, no request is created or changed,
\* and the updating set is left as it was
C2_SkipWhenUpdating ==
  [][\A l \in LoopIds :
       (/\ loops[l].pc = "delay"
        /\ loops'[l] # loops[l]
        /\ loops[l].idx < Len(loops[l].avail)
        /\ loops[l].avail[loops[l].idx + 1] \in updatingOracles)
       => (/\ loops'[l].pc = "delay"
           /\ loops'[l].res = "skipped"
           /\ reqs' = reqs
           /\ updatingOracles' = updatingOracles)]_vars

\* C2 happens: a loop's call was skipped while another call holds the id
C2_Witness ==
  \E l \in LoopIds, k \in LoopIds :
    /\ l # k
    /\ loops[l].pc = "delay" /\ loops[l].res = "skipped"
    /\ loops[k].pc = "exec" /\ Executing(k) = Executing(l)
    /\ Executing(l) \in updatingOracles

\* C3: the updating set holds exactly the ids of the executeOracleUpdate calls
\* in flight, so a call that ended on any path has removed its id, and the set
\* is empty when no call is in flight
C3_SetIsCallsInFlight ==
  updatingOracles = {Executing(l) : l \in {k \in LoopIds : loops[k].pc = "exec"}}

\* C3 happens: a call ended by an exception and its id is out of the set
C3_Witness ==
  \E l \in LoopIds :
    /\ loops[l].pc = "delay" /\ loops[l].last \in {"neterror", "unparsable"}
    /\ Executing(l) \notin updatingOracles
    /\ \A k \in LoopIds : loops[k].pc # "exec"
    /\ updatingOracles = {}

\* C4: the scheduler never has two executeOracleUpdate calls in flight at once
C4_OneSchedulerAttempt ==
  Cardinality({l \in LoopIds : loops[l].pc = "exec"}) <= 1

\* C6: whatever way an oracle's update ends, the loop goes on to the delay with
\* its list of oracles intact and then to the next oracle of the list; a failed
\* existence check lets the scan go on with the next entry
C6_LoopGoesOn ==
  [][\A l \in LoopIds :
       /\ (loops[l].pc = "exec" /\ loops'[l] # loops[l])
          => (/\ loops'[l].pc = "delay"
              /\ loops'[l].avail = loops[l].avail
              /\ loops'[l].idx = loops[l].idx)
       /\ (loops[l].pc = "delay" /\ loops'[l] # loops[l]
             /\ loops[l].idx < Len(loops[l].avail))
          => (/\ loops'[l].pc \in {"exec", "delay"}
              /\ loops'[l].avail = loops[l].avail
              /\ loops'[l].idx = loops[l].idx + 1)
       /\ (loops[l].pc = "scan" /\ loops'[l] # loops[l]
             /\ loops[l].scanIdx < Len(IdOrder))
          => (/\ loops'[l].pc = "scan"
              /\ loops'[l].scanIdx = loops[l].scanIdx + 1)]_vars

\* C6 happens: the first oracle's update failed and the second is attempted
C6_Witness ==
  \E l \in LoopIds :
    /\ loops[l].pc = "exec" /\ loops[l].idx = 2
    /\ loops[l].last \in {"failure", "neterror", "unparsable"}

\* C7: startScheduler called while running and stopScheduler called while
\* stopped change nothing: no timer, no loop run, no flag
C7_StartStopIdempotent ==
  [][/\ ((PostStart \/ AutoStart) /\ isRunning)
          => UNCHANGED <<isRunning, schedulerInterval, timers, loops>>
     /\ (PostStop /\ ~isRunning)
          => UNCHANGED <<isRunning, schedulerInterval, timers, loops>>]_vars

\* C7 happens: the scheduler was started at StartTime and the import-time timer
\* then called startScheduler; the one timer is the one of the first start
C7_Witness ==
  /\ isRunning /\ ~autoStart
  /\ timers = {[h |-> 1, at |-> StartTime + CheckIntervalMs]}

\* C5: a returned call of getOraclesDueForUpdate holds exactly the configured
\* oracles that passed the existence check and are due at the call's current
\* time: never updated, or currentTime >= lastUpdate + interval
C5_DueExactly ==
  dueCall.pc = "returned" =>
    dueCall.due = SelectSeq(IdOrder, LAMBDA i :
      /\ i \in dueCall.passed
      /\ \/ dueCall.configs[i].lastUpdate = NoTime
         \/ dueCall.currentTime >= dueCall.configs[i].lastUpdate
              + SchedulerIntervalMin(dueCall.configs[i]) * MinuteMs)

\* C8: on the update route a computed value equal to the on-chain value read
\* ends the attempt as skipped with no signing request and no broadcast, and a
\* signing request or broadcast is made only for a value that differs
C8_UnchangedSkipped ==
  \A r \in ReqIds :
    reqs[r].route = "update" =>
      /\ (reqs[r].new # Undef /\ reqs[r].new = reqs[r].cur)
           => (/\ reqs[r].pc = "done" /\ reqs[r].skipped /\ reqs[r].success
               /\ ~reqs[r].built /\ reqs[r].signs = 0 /\ reqs[r].bcasts = 0)
      /\ (reqs[r].built \/ reqs[r].signs > 0 \/ reqs[r].bcasts > 0)
           => reqs[r].new # reqs[r].cur

\* C8 happens: an update attempt computed the value it read and was skipped
C8_Witness ==
  \E r \in ReqIds :
    /\ reqs[r].route = "update" /\ reqs[r].pc = "done" /\ reqs[r].skipped
    /\ reqs[r].new = reqs[r].cur /\ reqs[r].cur = InitialValue
    /\ reqs[r].signs = 0 /\ reqs[r].bcasts = 0

\* C9: for an oracle whose on-chain creator is not the address its
\* transactions are sent from, no attempt builds, signs or broadcasts
C9_CreatorGate ==
  \A r \in ReqIds :
    (/\ reqs[r].pc # "free"
     /\ chain[reqs[r].id].exists
     /\ chain[reqs[r].id].creator # OracleAddress(reqs[r].id))
    => (~reqs[r].built /\ reqs[r].signs = 0 /\ reqs[r].bcasts = 0)

\* the minimum gas reserve, 0.001 ETH, in wei
MinGasWei == Wei(<<1>>, EvmDecimals - 3)

\* C10: with the sending wallet below the minimum gas reserve no transaction is
\* built; an insufficient-funds answer carries shortfall = minimum - balance
\* >= 0; checkMinimumBalance has hasMinimum exactly when shortfall = 0
C10_BalanceGate ==
  /\ \A r \in ReqIds :
       (reqs[r].pc # "free" /\ WeiLess(wallets[OracleAddress(reqs[r].id)], MinGasWei))
       => ~reqs[r].built
  /\ \A r \in ReqIds :
       reqs[r].error = "Insufficient balance for gas fees"
       => (reqs[r].shortfall = MinGasAmount - reqs[r].micro /\ reqs[r].shortfall >= 0)
  /\ \A b \in Balances :
       checkMinimumBalance(b, MinGasAmount).hasMinimum
         <=> checkMinimumBalance(b, MinGasAmount).shortfall = 0

\* C11: an update attempt that has failed after its on-chain read leaves the
\* stored config with hasError set, its error message and lastErrorAt
C11_FailurePersisted ==
  \A r \in ReqIds :
    (/\ reqs[r].route = "update" /\ reqs[r].pc = "done"
     /\ ~reqs[r].success /\ reqs[r].cur # Undef)
    => (/\ configs[reqs[r].id].hasError
        /\ configs[reqs[r].id].errorMessage = reqs[r].error
        /\ configs[reqs[r].id].lastErrorAt # NoTime)

\* C12: the step in which an update attempt's broadcast is acknowledged leaves
\* the stored config with lastUpdate = now, nextUpdate = now + the interval the
\* scheduler computes due-ness with, no error, and the hash and value sent
C12_SuccessPersisted ==
  [][\A r \in ReqIds :
       (/\ reqs[r].route = "update" /\ reqs[r].pc = "bcast"
        /\ reqs'[r].pc = "done" /\ reqs'[r].success)
       => LET c == configs'[reqs[r].id]
          IN /\ c.lastUpdate = now
             /\ c.nextUpdate = now + SchedulerIntervalMin(c) * MinuteMs
             /\ ~c.hasError /\ c.errorMessage = ""
             /\ c.lastTxHash = <<reqs[r].sender, reqs[r].id, reqs[r].new>>
             /\ c.lastValue = reqs[r].new]_vars

\* C13: the derivation path of an id is the id, and for every oracle created
\* through the create route the on-chain creator, the address of
\* deriveOracleWallet(id) and the sender of every update transaction prepared
\* for it are one address
C13_OneAddress ==
  \A i \in PostIds :
    /\ getDerivationPath(i) = i
    /\ chain[i].exists
       => /\ chain[i].creator = deriveOracleWallet(i)
          /\ \A r \in ReqIds :
               (reqs[r].route = "update" /\ reqs[r].id = i /\ reqs[r].built)
               => reqs[r].sender = chain[i].creator

\* C15: the balance endpoint answers hasMinimum = true exactly when the raw
\* balance of the wallet is at least 0.001 ETH, 10^15 wei
C15_HasMinimum ==
  (call.fn = "balance" /\ call.pc = "returned")
  => (call.hasMinimum <=> ~WeiLess(call.raw, MinGasWei))

\* the member of the document a sequence of keys leads to, one object key or
\* array index per key; Undefined when a key is absent
RECURSIVE Member(_, _)
Member(value, keys) ==
  IF keys = <<>> THEN value
  ELSE IF value.t = "object" /\ Head(keys) \in DOMAIN value.v
       THEN Member(value.v[Head(keys)], Tail(keys))
  ELSE IF value.t = "array" /\ IndexOf(Head(keys)) \in 1..Len(value.v)
       THEN Member(value.v[IndexOf(Head(keys))], Tail(keys))
  ELSE Undefined

\* C16: extract returns the leaf when every segment of the path is present in
\* the document and the leaf is a number, and fails with a path-not-found
\* error when a segment is absent or null or the leaf is null or absent
C16_ExtractDescends ==
  (call.fn = "extract" /\ call.pc = "returned")
  => LET leaf == Member(call.obj, split(call.path))
     IN /\ leaf.t = "number" => (call.res.ok /\ call.res.value = leaf.v)
        /\ leaf.t \in {"null", "undefined"}
           => /\ ~call.res.ok
              /\ call.res.error \in {"Path not found: value is null",
                                      "Path not found: cannot access property",
                                      "Path exists but value is null"}

\* C14: in every step of the contract an existing oracle stays, with the same
\* creator; updateOracle and setOracleError from a sender other than the
\* creator or on a missing id, and createOracle on an existing id, leave the
\* contract state as it was; a value or error flag changes only in a call
\* sent by the creator
C14_OnlyCreatorWrites ==
  [][/\ \A i \in PostIds :
          chain[i].exists =>
            /\ chain'[i].exists /\ chain'[i].creator = chain[i].creator
            /\ (chain'[i].value # chain[i].value \/ chain'[i].hasError # chain[i].hasError)
               => \/ \E v \in ContractValues : SendUpdateOracle(chain[i].creator, i, v)
                  \/ \E e \in BOOLEAN : SendSetOracleError(chain[i].creator, i, e)
     /\ \A sender \in Senders, i \in PostIds :
          /\ (~chain[i].exists \/ chain[i].creator # sender)
             => /\ \A v \in ContractValues :
                     SendUpdateOracle(sender, i, v) => chain' = chain
                /\ \A e \in BOOLEAN :
                     SendSetOracleError(sender, i, e) => chain' = chain
          /\ chain[i].exists
             => \A v \in ContractValues : SendCreateOracle(sender, i, v) => chain' = chain
    ]_vars

\* an oracle whose value and error flag differ from what createOracle wrote,
\* beside an id never created
C14_Witness ==
  /\ chain["a"].exists /\ chain["a"].hasError /\ chain["a"].value # InitialValue
  /\ chain["a"].creator = OracleAddress("a")
  /\ chain["b"].exists /\ chain["b"].creator # chain["a"].creator
  /\ ~chain["x"].exists

\* the call executeOracleUpdate(oracleId) a loop makes in a step: the request
\* it posts, or the skip on an id that is being updated
Attempts(l, oracleId) ==
  \/ /\ loops'[l].pc = "exec"
     /\ reqs'[loops'[l].req].id = oracleId /\ reqs'[loops'[l].req].origin = l
     /\ reqs[loops'[l].req].pc = "free"
  \/ loops'[l].pc = "delay" /\ loops'[l].res = "skipped" /\ oracleId \in updatingOracles

\* C17: a scheduler loop attempts its due, available oracles one at a time in
\* list order: the list holds every due oracle not being updated, the first is
\* attempted when the list is made, the end of an attempt, whatever its
\* outcome, starts a delay of 60 s, and the next of the list is attempted only
\* once that delay has elapsed
C17_OneAtATime ==
  [][\A l \in LoopIds :
       /\ (loops[l].pc = "scan" /\ loops'[l].pc \notin {"scan", "idle"})
          => /\ loops'[l].avail =
                  SelectSeq(loops'[l].due, LAMBDA o : o \notin updatingOracles)
             /\ loops'[l].idx = 1 /\ Attempts(l, loops'[l].avail[1])
       /\ (loops[l].pc = "exec" /\ loops'[l].pc # "exec")
          => /\ loops'[l].pc = "delay" /\ loops'[l].wake = now + UpdateDelayMs
             /\ loops'[l].idx = loops[l].idx /\ loops'[l].avail = loops[l].avail
       /\ (loops[l].pc \in {"exec", "delay"} /\ loops'[l].pc \in {"exec", "delay"}
           /\ loops'[l].idx # loops[l].idx)
          => /\ loops[l].pc = "delay" /\ now >= loops[l].wake
             /\ loops'[l].idx = loops[l].idx + 1 /\ loops'[l].avail = loops[l].avail
             /\ Attempts(l, loops'[l].avail[loops'[l].idx])
       /\ (loops[l].pc = "delay" /\ loops'[l].pc = "idle")
          => loops[l].idx = Len(loops[l].avail) /\ now >= loops[l].wake
    ]_vars

\* a loop with the list a, b attempts b after a's attempt failed
C17_Witness ==
  \E l \in LoopIds :
    /\ loops[l].avail = <<"a", "b">> /\ loops[l].idx = 2 /\ loops[l].pc = "exec"
    /\ loops[l].last = "failure"
    /\ reqs[loops[l].req].id = "b"

C19_ForwardOnly ==
  [][\A r \in ReqIds :
       /\ reqs'[r].signs <= 1 /\ reqs'[r].bcasts <= 1
       /\ reqs'[r].bcasts = 1 => reqs'[r].signs = 1
       /\ reqs'[r].signs > reqs[r].signs
          => reqs[r].pc = "build" /\ reqs'[r].pc = "sign"
       /\ reqs'[r].bcasts > reqs[r].bcasts
          => reqs[r].pc = "sign" /\ reqs'[r].pc = "bcast"
       /\ reqs[r].pc = "sign" => reqs'[r].pc \in {"sign", "bcast", "done"}
       /\ reqs[r].pc = "bcast" => reqs'[r].pc \in {"bcast", "done"}
       /\ reqs[r].pc = "done" => reqs'[r].pc \in {"done", "free"}
       /\ (reqs[r].pc \in {"sign", "bcast"} /\ reqs'[r].pc = "done" /\ ~reqs'[r].success)
          => /\ reqs'[r].status = 500 /\ reqs'[r].error # "none"
             /\ reqs'[r].signs = reqs[r].signs /\ reqs'[r].bcasts = reqs[r].bcasts
             /\ chain' = chain
    ]_vars

\* an attempt whose broadcast failed, after one signing request and one broadcast
C19_Witness ==
  \E r \in ReqIds :
    /\ reqs[r].pc = "done" /\ ~reqs[r].success /\ reqs[r].status = 500
    /\ reqs[r].signs = 1 /\ reqs[r].bcasts = 1
    /\ reqs[r].error = "Nonce error - transaction may have already been processed."

\* the steps of the update attempts for oracle i: the acknowledged broadcast,
\* the failure of a transaction step, the config load with its backfill
AckStep(i) ==
  \E r \in ReqIds : /\ reqs[r].route = "update" /\ reqs[r].id = i
                    /\ reqs[r].pc = "bcast" /\ reqs'[r].pc = "done" /\ reqs'[r].success

FailStep(i) ==
  \E r \in ReqIds : /\ reqs[r].route = "update" /\ reqs[r].id = i
                    /\ reqs[r].pc \in {"build", "sign", "bcast"}
                    /\ reqs'[r].pc = "done" /\ ~reqs'[r].success

LoadStep(i) ==
  \E r \in ReqIds : /\ reqs[r].route = "update" /\ reqs[r].id = i
                    /\ reqs[r].pc = "start" /\ reqs'[r].pc = "read"

\* the stored fields other than the error fields and the two backfilled ones
KeptFields ==
  {"lastUpdate", "nextUpdate", "lastTxHash", "lastValue", "isActive",
   "updateIntervalMinutes", "multiplier"}

C22_ConflictInformational ==
  [][/\ \A f \in {"already known", "nonce too low"} :
          /\ SchedulerLog(BroadcastMessage(f)) = "log"
          /\ \A g \in FailureTexts \ {"already known", "nonce too low"} :
               /\ BroadcastMessage(g) # BroadcastMessage(f)
               /\ SchedulerLog(BroadcastMessage(g)) = "error"
     /\ \A r \in ReqIds :
          (/\ reqs[r].route = "update" /\ reqs[r].pc = "bcast" /\ reqs'[r].pc = "done"
           /\ reqs'[r].error \in {BroadcastMessage("already known"),
                                  BroadcastMessage("nonce too low")})
          => /\ configs'[reqs[r].id].hasError = configs[reqs[r].id].hasError
             /\ configs'[reqs[r].id].errorMessage = configs[reqs[r].id].errorMessage
    ]_vars

\* C23: on a string leaf extract fails as not-numeric whenever the parse of
\* the string is not finite, on a leaf that is neither a number nor a string
\* it fails as wrong-type, and every value it returns is a finite number
C23_FiniteOnly ==
  (call.fn = "extract" /\ call.pc = "returned")
  => LET leaf == Member(call.obj, split(call.path))
     IN /\ (leaf.t = "string" /\ parseFloat(leaf.v).kind # "finite")
           => (~call.res.ok /\ call.res.error = "not a valid number")
        /\ leaf.t \in {"boolean", "object", "array"}
           => (~call.res.ok /\ call.res.error = "not a number or numeric string")
        /\ call.res.ok => call.res.value.kind = "finite"

\* C24: the value the handler computes is the extracted value times the
\* multiplier, rounded to the nearest integer (halves upwards); for the
\* response {"data":{"price":"42.5"}}, path data.price and multiplier 100 the
\* extracted value is 42.5 and the computed value is 4250
C24_Scenario ==
  /\ call.obj = Price(Json("string", <<"4", "2", ".", "5">>))
  /\ call.path = <<"data", ".", "price">>
  /\ call.priceMultiplier = 100

C24_RoundedProduct ==
  (call.fn = "compute" /\ call.pc = "returned")
  => \A extracted \in {extractValueFromPath(call.obj, call.path)} :
     LET x == extracted.value
         n == call.res.newValue
     IN /\ (extracted.ok /\ x.kind = "finite")
           => /\ call.res.status = 0
              /\ n.kind = "finite" /\ n.den = 1
              /\ 2 * n.num * x.den <= 2 * x.num * call.priceMultiplier + x.den
              /\ 2 * x.num * call.priceMultiplier + x.den < 2 * (n.num + 1) * x.den
        /\ C24_Scenario
           => /\ extracted.ok /\ x = [kind |-> "finite", num |-> 425, den |-> 10]
              /\ n = [kind |-> "finite", num |-> 4250, den |-> 1]

\* the scenario's value has been computed, and a product that ends in .5
C24_Witness ==
  /\ call.fn = "compute" /\ call.pc = "returned"
  /\ \/ C24_Scenario /\ call.res.newValue.num = 4250
     \/ /\ call.obj = Price(Json("string", <<"4", "2", ".", "5">>))
        /\ call.path = <<"data", ".", "price">>
        /\ call.priceMultiplier = 1
        /\ call.res.newValue.num = 43

\* C25: convertToDecimal gives raw / 10^decimals with decimalPlaces digits
\* after the point, rounded to the nearest: nothing but zeros when raw has
\* fewer than decimals - decimalPlaces digits, raw * 10^(places - decimals)
\* units when no digit is dropped, and floor(raw / 10^dropped + 1/2) units
\* when up to three digits are dropped; 300000 with 2 decimals and 2 places is
\* "3000.00", and 300000 with 18 decimals and 6 places is "0.000000"
C25_Dropped == call.decimals - call.decimalPlaces

C25_Raw == ToNumber(call.bigIntValue)

C26_Elapsed(config, currentTime) ==
  /\ config.lastUpdate # NoTime
  /\ currentTime >= config.lastUpdate + config.updateInterval * MinuteMs

C26_ActiveIgnored ==
  [][\A l \in LoopIds :
       LET L == loops[l]
           i == IdOrder[L.scanIdx]
       IN (/\ L.pc = "scan"
           /\ loops'[l] # L
           /\ events' = events
           /\ ~L.configs[i].isActive
           /\ C26_Elapsed(L.configs[i], L.currentTime))
          => \/ \E k \in 1..Len(loops'[l].due) : loops'[l].due[k] = i
             \/ loops'[l] = IdleLoop /\ i \in updatingOracles]_vars

\* the scheduler's attempt for an oracle with isActive false has succeeded
C26_Witness ==
  \E r \in ReqIds :
    /\ reqs[r].route = "update" /\ reqs[r].origin # 0
    /\ reqs[r].pc = "done" /\ reqs[r].success /\ ~reqs[r].skipped
    /\ ~configs[reqs[r].id].isActive
    /\ configs[reqs[r].id].lastUpdate = now

\* C27: a scheduler loop starts an attempt for an oracle only if the oracle is
\* due at that moment by the stored config: never updated, or the interval
\* has elapsed since lastUpdate
C27_DueNow(i) ==
  \/ configs[i].lastUpdate = NoTime
  \/ now >= calculateNextUpdate(configs[i], now)

C27_DueAtStart ==
  [][\A l \in LoopIds :
       (loops[l].pc # "exec" /\ loops'[l].pc = "exec")
       => C27_DueNow(loops'[l].avail[loops'[l].idx])]_vars

\* C28: while the scheduler is stopped no scheduler loop starts an update
\* attempt, also when a loop was in its due list or in its delay at the stop
C28_NoAttemptWhileStopped ==
  [][\A l \in LoopIds :
       (loops[l].pc # "exec" /\ loops'[l].pc = "exec") => isRunning']_vars

\* C29: whatever startScheduler, stopScheduler and the import-time auto-start
\* did, isRunning is true exactly when an interval timer is registered, at
\* most one timer is registered, and schedulerInterval is its handle
C29_OneTimer ==
  /\ isRunning <=> timers # {}
  /\ Cardinality(timers) <= 1
  /\ \A t \in timers : t.h = schedulerInterval
  /\ timers = {} => schedulerInterval = NoHandle

\* the scheduler runs after two events or more and its one timer is due later
\* than the first start set it: re-armed by a tick or registered by a later start
C29_Witness ==
  /\ isRunning /\ ~autoStart
  /\ events >= 2
  /\ \E t \in timers : t.at > StartTime + CheckIntervalMs

\* C30: while the scheduler runs and every call returns, an oracle that is
\* deployed and due (never updated, or its interval has elapsed) is in the end
\* attempted by a scheduler loop unless it ceases to be due, and an id in the
\* updating set is in the end removed from it
C30_Attempted(i) == \E l \in LoopIds : loops[l].pc = "exec" /\ Executing(l) = i

C30_Due(i) == isRunning /\ chain[i].exists /\ C27_DueNow(i)

C30_EventuallyAttempted ==
  /\ \A i \in Ids : C30_Due(i) ~> (C30_Attempted(i) \/ ~C30_Due(i))
  /\ \A i \in Ids : (i \in updatingOracles) ~> (i \notin updatingOracles)

====
